---- MODULE Spec2Model ----
(***************************************************************************)
(* Solara: an interactive front-end of nmap.  Two programs are modelled:   *)
(* src/solara.py (prog = "solara") and its coloured variant src/test.py    *)
(* (prog = "test").  Text is modelled at character level: a string is a    *)
(* sequence of one-character strings, a tool output is the sequence of its *)
(* lines (what stdout.split('\n') returns).                                *)
(***************************************************************************)
EXTENDS Integers, Sequences, FiniteSets, TLC

VARIABLES
    prog,            \* which program runs: "solara" or "test"
    pc,              \* position of the running operation
    lines,           \* result.stdout.split('\n') of the scan being parsed
    idx,             \* index of the next line of the for-loop over lines
    open_ports,      \* website_scan: open_ports
    service_info,    \* website_scan: service_info (solara.py only)
    devices,         \* wifi_scan: devices
    current_device,  \* wifi_scan: current_device
    args,            \* main: the parsed command line (target, scan_type, color)
    current_color,   \* ColorManager.current_color (test.py)
    rainbow_index,   \* ColorManager.rainbow_index (test.py)
    printed,         \* the messages printed by the last step, in order
    last,            \* the last step: command read, function run, what the tool did
    scans_run,       \* history: scan invocations of nmap so far (saturating)
    prompts_shown,   \* history: times the solara> prompt was shown (saturating)
    exit_status      \* the process's exit status once pc = "ended"

parserVars == <<lines, idx, open_ports, service_info, devices, current_device>>
sessionVars == <<args, current_color, rainbow_index, printed, last, scans_run,
                 prompts_shown, exit_status>>
vars == <<prog, pc, lines, idx, open_ports, service_info, devices, current_device,
          args, current_color, rainbow_index, printed, last, scans_run,
          prompts_shown, exit_status>>

Programs == {"solara", "test"}

\* The longest tool output explored by the parser specifications, in lines.
MaxLines == 3

(***************************************************************************)
(* Python string operations, on sequences of characters.                   *)
(***************************************************************************)
Whitespace == {" ", "\t"}

\* s.startswith(p)
StartsWith(s, p) == Len(p) <= Len(s) /\ SubSeq(s, 1, Len(p)) = p

\* s.find(sub) + 1 (0 when sub does not occur in s)
Find(s, sub) ==
    LET hits == {i \in 1..(Len(s) - Len(sub) + 1) : SubSeq(s, i, i + Len(sub) - 1) = sub}
    IN IF hits = {} THEN 0 ELSE CHOOSE i \in hits : \A j \in hits : i <= j

\* sub in s
Contains(s, sub) == Find(s, sub) # 0

\* s.split(sep), sep a non-empty string
RECURSIVE SplitOn(_, _)
SplitOn(s, sep) ==
    LET i == Find(s, sep)
    IN IF i = 0 THEN <<s>>
       ELSE <<SubSeq(s, 1, i - 1)>> \o SplitOn(SubSeq(s, i + Len(sep), Len(s)), sep)

\* s.lstrip()
RECURSIVE LStrip(_)
LStrip(s) == IF s # <<>> /\ Head(s) \in Whitespace THEN LStrip(Tail(s)) ELSE s

\* s.rstrip()
RECURSIVE RStrip(_)
RStrip(s) ==
    IF s # <<>> /\ s[Len(s)] \in Whitespace THEN RStrip(SubSeq(s, 1, Len(s) - 1)) ELSE s

\* s.strip()
Strip(s) == RStrip(LStrip(s))

\* the length of the longest whitespace-free prefix of s
RECURSIVE WordLen(_)
WordLen(s) == IF s = <<>> \/ Head(s) \in Whitespace THEN 0 ELSE 1 + WordLen(Tail(s))

\* s.split(): the maximal runs of non-whitespace characters
RECURSIVE SplitWS(_)
SplitWS(s) ==
    LET t == LStrip(s)
        n == WordLen(t)
    IN IF t = <<>> THEN <<>>
       ELSE <<SubSeq(t, 1, n)>> \o SplitWS(SubSeq(t, n + 1, Len(t)))

\* s.replace(old, '')
RECURSIVE RemoveAll(_, _)
RemoveAll(s, old) ==
    LET i == Find(s, old)
    IN IF i = 0 THEN s
       ELSE SubSeq(s, 1, i - 1) \o RemoveAll(SubSeq(s, i + Len(old), Len(s)), old)

\* sep.join(parts)
RECURSIVE Join(_, _)
Join(parts, sep) ==
    IF parts = <<>> THEN <<>>
    ELSE IF Len(parts) = 1 THEN parts[1]
    ELSE parts[1] \o sep \o Join(Tail(parts), sep)

(***************************************************************************)
(* String literals of the two parsers.                                     *)
(***************************************************************************)
ReportHeader == <<"N","m","a","p"," ","s","c","a","n"," ","r","e","p","o","r","t"," ","f","o","r">>
ForSep == <<"f","o","r"," ">>
MacPrefix == <<"M","A","C"," ","A","d","d","r","e","s","s",":">>
MacPrefixSp == <<"M","A","C"," ","A","d","d","r","e","s","s",":"," ">>
HostIsUp == <<"H","o","s","t"," ","i","s"," ","u","p">>
Unknown == <<"U","n","k","n","o","w","n">>
Up == <<"U","P">>
LParen == <<"(">>
RParen == <<")">>
SpLParen == <<" ","(">>
SlashTcp == <<"/","t","c","p">>
OpenWord == <<"o","p","e","n">>
Slash == <<"/">>
UnknownLc == <<"u","n","k","n","o","w","n">>
Space == <<" ">>

(***************************************************************************)
(* Python dicts.  current_device is a dict with the optional keys          *)
(* hostname, ip, mac, vendor, status: a record whose absent keys hold      *)
(* Absent.  service_info is a dict keyed by the port string: a function.   *)
(***************************************************************************)
Absent == <<"<absent>">>
DeviceKeys == {"hostname", "ip", "mac", "vendor", "status"}
EmptyDevice == [k \in DeviceKeys |-> Absent]

\* bool(d) of a device dict: it has at least one key
Truthy(d) == \E k \in DeviceKeys : d[k] # Absent

EmptyDict == [k \in {} |-> Absent]

\* d[k] = v
DictSet(d, k, v) == [q \in (DOMAIN d) \cup {k} |-> IF q = k THEN v ELSE d[q]]


(***************************************************************************)
(* The session state outside a session (the parser specifications).        *)
(***************************************************************************)
\* argparse's defaults: no --target, no --scan-type, no --color.  An absent
\* target is Absent, an absent scan type "None", an absent number <<>> (a
\* given number n is <<n>>).
NoArgs == [target |-> <<"<absent>">>, scan_type |-> "None", color |-> <<>>]

\* ColorManager.__init__: self.current_color = 1
DefaultColor == 1

\* no step taken yet
NoStep == [command |-> <<>>, op |-> "none", outcome |-> "none", exc |-> "none",
           color_num |-> <<>>, old_color |-> <<>>, net_env |-> "none", network |-> "none",
           answer |-> <<"<absent>">>,
           web |-> [site |-> <<"<absent>">>, confirm |-> <<"<absent>">>,
                    choice |-> <<"<absent>">>, sub |-> <<"<absent>">>,
                    show_raw |-> <<"<absent>">>]]

(***************************************************************************)
(* ColorManager (test.py).  solara.py has no colours: there current_color  *)
(* and rainbow_index keep their initial values.                            *)
(***************************************************************************)
\* the keys of self.color_map
PaletteKeys == 1..20
RainbowMode == 99
\* len(self.rainbow_colors)
RainbowLen == 6

\* set_color(color_num): the new current_color
SetColor_keepOnInvalid(cur, color_num) ==
    IF color_num = RainbowMode THEN RainbowMode
    ELSE IF color_num \in PaletteKeys THEN color_num
    ELSE cur

SetColor_storeAny(cur, color_num) == color_num

SetColor(cur, color_num) ==
    IF color_num = RainbowMode THEN RainbowMode
    ELSE IF color_num \in PaletteKeys THEN color_num
    ELSE DefaultColor

\* set_color(color_num): what it prints
SetColorOut(color_num) ==
    IF color_num = RainbowMode \/ color_num \in PaletteKeys THEN <<>>
    ELSE <<"color_not_available">>

\* rainbow_index after n colorize calls without a forced colour:
\* get_color_code advances it in rainbow mode only
Advance(cur, ri, n) == IF cur = RainbowMode THEN (ri + n) % RainbowLen ELSE ri

\* self.color_map: the escape sequence of each palette colour
ColorMap ==
    [k \in PaletteKeys |->
        <<"ESC[97m", "ESC[92m", "ESC[91m", "ESC[94m", "ESC[93m", "ESC[95m", "ESC[96m",
          "ESC[90m", "ESC[37m", "ESC[31m", "ESC[32m", "ESC[34m", "ESC[35m", "ESC[36m",
          "ESC[33m", "ESC[1;91m", "ESC[1;92m", "ESC[1;94m", "ESC[1;95m", "ESC[1;96m">>[k]]

\* self.rainbow_colors: red, yellow, green, cyan, blue, magenta
RainbowColors == <<"ESC[91m", "ESC[93m", "ESC[92m", "ESC[96m", "ESC[94m", "ESC[95m">>

\* self.reset
Reset == "ESC[0m"

\* get_color_code(): [code: the escape sequence returned, index: the
\* rainbow_index it leaves]
GetColorCode_noWrap(cur, ri) ==
    IF cur = RainbowMode
    THEN [code |-> RainbowColors[ri + 1],
          index |-> IF ri + 1 < RainbowLen THEN ri + 1 ELSE ri]
    ELSE [code |-> IF cur \in PaletteKeys THEN ColorMap[cur] ELSE ColorMap[1], index |-> ri]

GetColorCode(cur, ri) ==
    IF cur = RainbowMode
    THEN [code |-> RainbowColors[ri + 1], index |-> (ri + 1) % RainbowLen]
    ELSE [code |-> IF cur \in PaletteKeys THEN ColorMap[cur] ELSE ColorMap[1], index |-> ri]

\* the colour chosen by colorize(text, force_color); force_color 0 stands for
\* None (`if force_color:` takes both for "not forced")
ColorCode(cur, ri, force_color) ==
    IF force_color # 0
    THEN [code |-> IF force_color \in PaletteKeys THEN ColorMap[force_color] ELSE ColorMap[1],
          index |-> ri]
    ELSE GetColorCode(cur, ri)

\* colorize(text, force_color): f"{color_code}{text}{self.reset}"
Colorize(cur, ri, text, force_color) ==
    <<ColorCode(cur, ri, force_color).code>> \o text \o <<Reset>>

\* The theme states (current_color, rainbow_index) a scan may start in:
\* solara.py has the initial one only.
ThemeStates(p) ==
    IF p = "solara" THEN {<<DefaultColor, 0>>}
    ELSE {<<DefaultColor, 0>>, <<5, 0>>, <<5, 2>>, <<RainbowMode, 0>>, <<RainbowMode, 4>>}

\* for line in lines: the line the parse loops of wifi_scan and website_scan
\* read is the element of result.stdout.split('\n') itself; colorize is
\* applied to the strings handed to print only, whatever the theme state
ScanLine_colorized(cur, ri, line) == Colorize(cur, ri, line, 0)

ScanLine(cur, ri, line) == line

(***************************************************************************)
(* wifi_scan: the device-discovery parser (the same code in both programs).*)
(***************************************************************************)
\* line.split('for ')[1]: IndexError when the split has a single part
HasForPart(line) == Len(SplitOn(line, ForSep)) >= 2
ForPart(line) == SplitOn(line, ForSep)[2]

\* hostname = line.split('for ')[1].split(' (')[0]
HeaderHostname(line) == SplitOn(ForPart(line), SpLParen)[1]

\* ip = line.split('(')[1].split(')')[0]
HeaderParenIP(line) == SplitOn(SplitOn(line, LParen)[2], RParen)[1]

\* the branch taken for a header line: both '(' and ')' occur in it
HasBothParens(line) == Contains(line, LParen) /\ Contains(line, RParen)

\* mac_info = line.replace('MAC Address: ', '')
MacInfo(line) == RemoveAll(line, MacPrefixSp)

\* mac = mac_info.split(' (')[0]
MacOf(mac_info) == SplitOn(mac_info, SpLParen)[1]

\* vendor = mac_info.split('(')[1].replace(')', '')
VendorOf(mac_info) == RemoveAll(SplitOn(mac_info, LParen)[2], RParen)

\* One iteration of the for-loop of wifi_scan on the parser state
\* st = [devices, current_device, raised]; raised is the IndexError of
\* line.split('for ')[1], which leaves the loop for `except Exception`.
DeviceStep(st, rawline) ==
    LET line == Strip(rawline)
    IN IF StartsWith(line, ReportHeader)
       THEN LET devs == IF Truthy(st.current_device)
                        THEN Append(st.devices, st.current_device)
                        ELSE st.devices
            IN IF ~HasForPart(line)
               THEN [devices |-> devs, current_device |-> EmptyDevice, raised |-> TRUE]
               ELSE IF HasBothParens(line)
               THEN [devices |-> devs,
                     current_device |-> [EmptyDevice EXCEPT !.hostname = HeaderHostname(line),
                                                            !.ip = HeaderParenIP(line)],
                     raised |-> FALSE]
               ELSE [devices |-> devs,
                     current_device |-> [EmptyDevice EXCEPT !.hostname = Unknown,
                                                            !.ip = ForPart(line)],
                     raised |-> FALSE]
       ELSE IF StartsWith(line, MacPrefix)
       THEN LET mac_info == MacInfo(line)
            IN IF Contains(mac_info, LParen)
               THEN [st EXCEPT !.current_device.mac = MacOf(mac_info),
                               !.current_device.vendor = VendorOf(mac_info)]
               ELSE [st EXCEPT !.current_device.mac = mac_info,
                               !.current_device.vendor = Unknown]
       ELSE IF Contains(line, HostIsUp)
       THEN [st EXCEPT !.current_device.status = Up]
       ELSE st

\* "Add last device": the statement after the loop
DeviceFinish(st) ==
    IF Truthy(st.current_device) THEN Append(st.devices, st.current_device) ELSE st.devices

\* Lines of nmap -sn output, well-formed and not.
DeviceLines ==
    { <<>>,
      <<"x">>,
      ReportHeader \o <<" ","1">>,
      ReportHeader \o <<" ","h"," ","(","2",")">>,
      <<" ">> \o ReportHeader \o <<" ","3"," ">>,
      ReportHeader,
      ReportHeader \o <<" ","f","o","r"," ","4">>,
      ReportHeader \o <<" ","f","o","r"," ","(","5",")">>,
      MacPrefixSp \o <<"A">>,
      MacPrefixSp \o <<"B"," ","(","v",")">>,
      MacPrefixSp \o <<"C"," ","(","v","(","w",")",")">>,
      MacPrefix,
      HostIsUp }

\* The tool outputs of at most MaxLines lines over a set of lines.
Texts(L) == UNION {[1..n -> L] : n \in 1..MaxLines}

InitDevices ==
    /\ prog \in Programs
    /\ pc = "wifi_loop"
    /\ lines \in Texts(DeviceLines)
    /\ idx = 1
    /\ devices = <<>>
    /\ current_device = EmptyDevice
    /\ open_ports = <<>>
    /\ service_info = EmptyDict
    /\ args = NoArgs
    /\ current_color = DefaultColor
    /\ rainbow_index = 0
    /\ printed = <<>>
    /\ last = NoStep
    /\ scans_run = 0
    /\ prompts_shown = 0
    /\ exit_status = 0

\* for line in lines: ... (one iteration)
WifiParseLine ==
    /\ pc = "wifi_loop"
    /\ idx <= Len(lines)
    /\ LET r == DeviceStep([devices |-> devices, current_device |-> current_device,
                            raised |-> FALSE],
                           ScanLine(current_color, rainbow_index, lines[idx]))
       IN /\ devices' = r.devices
          /\ current_device' = r.current_device
          /\ pc' = IF r.raised THEN "wifi_raised" ELSE "wifi_loop"
    /\ idx' = idx + 1
    /\ UNCHANGED <<prog, lines, open_ports, service_info>>
    /\ UNCHANGED sessionVars

\* the loop is over: if current_device: devices.append(current_device)
WifiParseEnd ==
    /\ pc = "wifi_loop"
    /\ idx > Len(lines)
    /\ devices' = DeviceFinish([devices |-> devices, current_device |-> current_device,
                               raised |-> FALSE])
    /\ pc' = "wifi_parsed"
    /\ UNCHANGED <<prog, lines, idx, open_ports, service_info, current_device>>
    /\ UNCHANGED sessionVars

NextDevices == WifiParseLine \/ WifiParseEnd

SpecDevices == InitDevices /\ [][NextDevices]_vars

(***************************************************************************)
(* website_scan: the open-port parser.  solara.py keeps the list           *)
(* open_ports of port strings and the dict service_info keyed by port;     *)
(* test.py keeps a list open_ports of (port, service, line) tuples.        *)
(***************************************************************************)
\* if '/tcp' in line and 'open' in line:
IsOpenPortLine_tcpOnly(line) == Contains(line, SlashTcp)

IsOpenPortLine(line) == Contains(line, SlashTcp) /\ Contains(line, OpenWord)

\* parts = line.split(); port = parts[0].split('/')[0]
PortOf(line) == SplitOn(SplitWS(line)[1], Slash)[1]

\* service = parts[2] if len(parts) > 2 else 'unknown'
ServiceOf(line) ==
    LET parts == SplitWS(line) IN IF Len(parts) > 2 THEN parts[3] ELSE UnknownLc

\* version = ' '.join(parts[3:]) if len(parts) > 3 else ''
VersionOf(line) ==
    LET parts == SplitWS(line)
    IN IF Len(parts) > 3 THEN Join(SubSeq(parts, 4, Len(parts)), Space) ELSE <<>>

\* One iteration of the for-loop of website_scan on st = [open_ports, service_info].
PortStep(p, st, line) ==
    IF ~IsOpenPortLine(line) THEN st
    ELSE IF p = "solara"
    THEN [open_ports |-> Append(st.open_ports, PortOf(line)),
          service_info |-> DictSet(st.service_info, PortOf(line),
                                   [service |-> ServiceOf(line), version |-> VersionOf(line)])]
    ELSE [open_ports |-> Append(st.open_ports, <<PortOf(line), ServiceOf(line), line>>),
          service_info |-> st.service_info]

\* What the display loop reads for each entry of open_ports:
\* solara.py: service_info[port]['service'], service_info[port]['version'];
\* test.py: the tuple's own port and service.
PortRecords(p, st) ==
    [i \in 1..Len(st.open_ports) |->
        IF p = "solara"
        THEN [port |-> st.open_ports[i],
              service |-> st.service_info[st.open_ports[i]].service,
              version |-> st.service_info[st.open_ports[i]].version]
        ELSE [port |-> st.open_ports[i][1],
              service |-> st.open_ports[i][2],
              version |-> <<>>]]

\* Lines of nmap port-scan output, well-formed and not.
PortLines ==
    { <<>>,
      <<"x">>,
      <<"2","2","/","t","c","p"," ","o","p","e","n"," ","s","s","h">>,
      <<"8","0","/","t","c","p"," ","o","p","e","n"," ","w">>,
      <<"8","0","/","t","c","p"," ","o","p","e","n"," ","a"," ","v"," ","1">>,
      <<" ","7","/","t","c","p"," "," ","o","p","e","n"," "," ","s"," ">>,
      <<"9","/","t","c","p"," ","o","p","e","n">>,
      <<"2","2","/","t","c","p"," ","c","l","o","s","e","d"," ","s","s","h">>,
      <<"5","/","t","c","p"," ","c","l","o","s","e","d"," ","o","p","e","n","v">>,
      <<"o","p","e","n"," ","/","t","c","p">> }

InitPorts ==
    /\ prog \in Programs
    /\ pc = "web_loop"
    /\ lines \in Texts(PortLines)
    /\ idx = 1
    /\ open_ports = <<>>
    /\ service_info = EmptyDict
    /\ devices = <<>>
    /\ current_device = EmptyDevice
    /\ args = NoArgs
    /\ current_color = DefaultColor
    /\ rainbow_index = 0
    /\ printed = <<>>
    /\ last = NoStep
    /\ scans_run = 0
    /\ prompts_shown = 0
    /\ exit_status = 0

\* for line in lines: ... (one iteration)
WebParseLine ==
    /\ pc = "web_loop"
    /\ idx <= Len(lines)
    /\ LET r == PortStep(prog, [open_ports |-> open_ports, service_info |-> service_info],
                         ScanLine(current_color, rainbow_index, lines[idx]))
       IN /\ open_ports' = r.open_ports
          /\ service_info' = r.service_info
    /\ idx' = idx + 1
    /\ UNCHANGED <<prog, pc, lines, devices, current_device>>
    /\ UNCHANGED sessionVars

\* the loop is over: the records are displayed
WebParseEnd ==
    /\ pc = "web_loop"
    /\ idx > Len(lines)
    /\ pc' = "web_parsed"
    /\ UNCHANGED <<prog, lines, idx, open_ports, service_info, devices, current_device>>
    /\ UNCHANGED sessionVars

NextPorts == WebParseLine \/ WebParseEnd

SpecPorts == InitPorts /\ [][NextPorts]_vars

\* Lines of both kinds of output, for the parsers run in any theme state.
ThemedPortLines ==
    { <<"x">>,
      <<"2","2","/","t","c","p"," ","o","p","e","n"," ","s","s","h">>,
      <<"8","0","/","t","c","p"," ","o","p","e","n"," ","a"," ","v"," ","1">>,
      <<" ","7","/","t","c","p"," "," ","o","p","e","n"," "," ","s"," ">>,
      <<"2","2","/","t","c","p"," ","c","l","o","s","e","d"," ","s","s","h">> }

ThemedDeviceLines ==
    { <<"x">>,
      ReportHeader \o <<" ","1">>,
      ReportHeader \o <<" ","h"," ","(","2",")">>,
      ReportHeader,
      MacPrefixSp \o <<"B"," ","(","v",")">>,
      HostIsUp }

\* Both parsers, each on its own outputs, called in any theme state.
InitParsers ==
    /\ prog \in Programs
    /\ \/ pc = "web_loop" /\ lines \in Texts(ThemedPortLines)
       \/ pc = "wifi_loop" /\ lines \in Texts(ThemedDeviceLines)
    /\ \E theme \in ThemeStates(prog) : current_color = theme[1] /\ rainbow_index = theme[2]
    /\ idx = 1
    /\ open_ports = <<>>
    /\ service_info = EmptyDict
    /\ devices = <<>>
    /\ current_device = EmptyDevice
    /\ args = NoArgs
    /\ printed = <<>>
    /\ last = NoStep
    /\ scans_run = 0
    /\ prompts_shown = 0
    /\ exit_status = 0

NextParsers == NextPorts \/ NextDevices

SpecParsers == InitParsers /\ [][NextParsers]_vars

(***************************************************************************)
(* Claims about the open-port parser (SpecPorts).                          *)
(***************************************************************************)
\* The lines read so far that carry the marker: '/tcp' and 'open'.
MarkerLines == {i \in 1..(idx - 1) : Contains(lines[i], SlashTcp) /\ Contains(lines[i], OpenWord)}

\* The position among the marker lines of marker line i.
MarkerRank(i) == Cardinality({j \in MarkerLines : j <= i})

MarkerPortsDistinct ==
    \A i, j \in MarkerLines : i # j => PortOf(lines[i]) # PortOf(lines[j])

CurrentPortRecords == PortRecords(prog, [open_ports |-> open_ports, service_info |-> service_info])

\* C1: the port parser yields exactly one record per line containing '/tcp'
\* and 'open', in input order (lines without the marker yield none); when the
\* marker lines have distinct ports, each record carries the port and the
\* service name of its own line.
C1_OneRecordPerOpenLine ==
    pc \in {"web_loop", "web_parsed"} =>
        /\ Len(CurrentPortRecords) = Cardinality(MarkerLines)
        /\ MarkerPortsDistinct =>
              \A i \in MarkerLines :
                  /\ CurrentPortRecords[MarkerRank(i)].port = PortOf(lines[i])
                  /\ CurrentPortRecords[MarkerRank(i)].service = ServiceOf(lines[i])

\* C1 witness: a parsed three-line output with two marker lines of distinct
\* ports and services around a line without the marker.
C1_Witness ==
    /\ pc = "web_parsed"
    /\ Len(lines) = 3
    /\ MarkerLines = {1, 3}
    /\ MarkerPortsDistinct
    /\ ServiceOf(lines[1]) # ServiceOf(lines[3])
    /\ Len(CurrentPortRecords) = 2

(***************************************************************************)
(* Claims about the device-discovery parser (SpecDevices).                 *)
(***************************************************************************)
\* The lines of the output that the parser takes for report headers.
HeaderLines == {i \in 1..Len(lines) : StartsWith(Strip(lines[i]), ReportHeader)}

HeaderRank(i) == Cardinality({j \in HeaderLines : j <= i})

\* The IP the parser reads from a header line.
HeaderIP(line) == IF HasBothParens(line) THEN HeaderParenIP(line) ELSE ForPart(line)

\* C2: an output with N header lines, whatever lines surround them, yields
\* exactly N device records, the i-th carrying the IP of the i-th header.
C2_OneDevicePerHeader ==
    pc = "wifi_parsed" =>
        /\ Len(devices) = Cardinality(HeaderLines)
        /\ \A i \in HeaderLines : devices[HeaderRank(i)].ip = HeaderIP(Strip(lines[i]))

\* The line the loop has just processed.
LastLine == Strip(lines[idx - 1])

\* The text of a line after its first 'for '.
RestAfterFor(line) ==
    IF Find(line, ForSep) = 0 THEN <<>>
    ELSE SubSeq(line, Find(line, ForSep) + Len(ForSep), Len(line))

\* C3: a header line that does not contain both '(' and ')' produces a
\* record with hostname 'Unknown' and, as IP, the rest of the line after
\* 'for '.
C3_BareHeaderRecord ==
    (/\ pc \in {"wifi_loop", "wifi_raised"}
     /\ idx > 1
     /\ StartsWith(LastLine, ReportHeader)
     /\ ~HasBothParens(LastLine))
    => /\ pc = "wifi_loop"
       /\ current_device.hostname = Unknown
       /\ current_device.ip = RestAfterFor(LastLine)

\* The text of a MAC line after 'MAC Address:' and the blank that follows it.
MacRest(line) ==
    IF StartsWith(line, MacPrefixSp) THEN SubSeq(line, Len(MacPrefixSp) + 1, Len(line))
    ELSE SubSeq(line, Len(MacPrefix) + 1, Len(line))

\* The last position of character ch in s (0 when it does not occur).
LastIndexOf(s, ch) ==
    LET hits == {i \in 1..Len(s) : s[i] = ch}
    IN IF hits = {} THEN 0 ELSE CHOOSE i \in hits : \A j \in hits : j <= i

\* The vendor a MAC line names in parentheses: the text from its first '('
\* to its last ')'.
ParenthesizedText(s) == SubSeq(s, Find(s, LParen) + 1, LastIndexOf(s, ")") - 1)

\* C4: a MAC line without a parenthesized vendor sets vendor 'Unknown' and
\* MAC to the rest of the line; with one, MAC is the text before ' (' and
\* vendor the parenthesized text.
C4_MacLineFields ==
    (/\ pc = "wifi_loop"
     /\ idx > 1
     /\ ~StartsWith(LastLine, ReportHeader)
     /\ StartsWith(LastLine, MacPrefix))
    => IF Contains(MacRest(LastLine), LParen)
       THEN /\ current_device.mac = SubSeq(MacRest(LastLine), 1, Find(MacRest(LastLine), SpLParen) - 1)
            /\ current_device.vendor = ParenthesizedText(MacRest(LastLine))
       ELSE /\ current_device.mac = MacRest(LastLine)
            /\ current_device.vendor = Unknown

\* C8: whatever the shape of the lines, the parsers run to the end of the
\* input without raising.
C8_ParsersNeverRaise == pc # "wifi_raised"

(***************************************************************************)
(* The session: main, the interactive loop and the scan operations.        *)
(***************************************************************************)
\* The cap of the history counters scans_run and prompts_shown.
MaxCount == 2

Saturate(n) == IF n < MaxCount THEN n + 1 ELSE MaxCount

UpperLetters == <<"A","B","C","D","E","F","G","H","I","J","K","L","M",
                  "N","O","P","Q","R","S","T","U","V","W","X","Y","Z">>
LowerLetters == <<"a","b","c","d","e","f","g","h","i","j","k","l","m",
                  "n","o","p","q","r","s","t","u","v","w","x","y","z">>

\* s.lower()
Lower(s) ==
    [i \in 1..Len(s) |->
        IF \E k \in 1..26 : UpperLetters[k] = s[i]
        THEN LowerLetters[CHOOSE k \in 1..26 : UpperLetters[k] = s[i]]
        ELSE s[i]]

Digits == <<"0","1","2","3","4","5","6","7","8","9">>
IsDigit(c) == \E k \in 1..10 : Digits[k] = c
DigitVal(c) == (CHOOSE k \in 1..10 : Digits[k] = c) - 1

\* s.isdigit()
\* A variant of isdigit that lets the empty string pass.
IsDigits_allowEmpty(s) == \A i \in 1..Len(s) : IsDigit(s[i])

IsDigits(s) == s # <<>> /\ \A i \in 1..Len(s) : IsDigit(s[i])

RECURSIVE DigitsVal(_)
DigitsVal(s) == IF s = <<>> THEN 0 ELSE 10 * DigitsVal(SubSeq(s, 1, Len(s) - 1)) + DigitVal(s[Len(s)])

\* int(tok) succeeds: an optional sign and decimal digits
IsInt(tok) ==
    IF tok # <<>> /\ Head(tok) \in {"-", "+"} THEN IsDigits(Tail(tok)) ELSE IsDigits(tok)

\* int(tok)
IntOf(tok) ==
    IF Head(tok) = "-" THEN 0 - DigitsVal(Tail(tok))
    ELSE IF Head(tok) = "+" THEN DigitsVal(Tail(tok))
    ELSE DigitsVal(tok)

(***************************************************************************)
(* validate_target                                                         *)
(***************************************************************************)
Yes == <<"y","e","s">>
YesShort == <<"y">>
\* what input() does instead of returning a line
CtrlC == <<"<KeyboardInterrupt>">>
Eof == <<"<EOFError>">>

\* r'^172\.(1[6-9]|2[0-9]|3[01])\.'
Matches172(t) ==
    /\ StartsWith(t, <<"1","7","2",".">>)
    /\ Len(t) >= 7
    /\ t[7] = "."
    /\ \/ t[5] = "1" /\ t[6] \in {"6","7","8","9"}
       \/ t[5] = "2" /\ IsDigit(t[6])
       \/ t[5] = "3" /\ t[6] \in {"0","1"}

\* some pattern of private_patterns matches the target
IsPrivateTarget(t) ==
    \/ StartsWith(t, <<"1","2","7",".">>)
    \/ StartsWith(t, <<"1","0",".">>)
    \/ Matches172(t)
    \/ StartsWith(t, <<"1","9","2",".","1","6","8",".">>)
    \/ t = <<"l","o","c","a","l","h","o","s","t">>

\* response.lower() in ['yes', 'y']
IsYes_notNo(response) == Lower(response) # <<"n","o">>

IsYes(response) == Lower(response) \in {Yes, YesShort}

\* validate_target(target) when the user answers the prompt with `answer`:
\* [ok: its return value, out: what it prints, exc: what it raises, asked:
\* the prompt was shown]
ValidateTarget(target, answer) ==
    IF IsPrivateTarget(target)
    THEN [ok |-> TRUE, out |-> <<>>, exc |-> "none", asked |-> FALSE]
    ELSE IF answer = CtrlC
    THEN [ok |-> FALSE, out |-> <<"warn_public">>, exc |-> "interrupt", asked |-> TRUE]
    ELSE IF answer = Eof
    THEN [ok |-> FALSE, out |-> <<"warn_public">>, exc |-> "error", asked |-> TRUE]
    ELSE [ok |-> IsYes(answer), out |-> <<"warn_public">>, exc |-> "none", asked |-> TRUE]

\* What the user may answer to a yes/no prompt.
Answers == { Yes, YesShort, <<"Y","E","S">>, <<"n","o">>, <<>>, CtrlC, Eof }

(***************************************************************************)
(* The external invocation: subprocess.run(cmd, ..., timeout=...) returns  *)
(* a completed process (any exit status: check is not set), or raises      *)
(* TimeoutExpired, another Exception (OSError), or KeyboardInterrupt.      *)
(***************************************************************************)
Completed(rc, text, err) ==
    [kind |-> "completed", returncode |-> rc, stdout |-> text, stderr |-> err]
Raised(k) == [kind |-> k, returncode |-> 0, stdout |-> <<>>, stderr |-> FALSE]

\* What an invocation may do, its stdout drawn from `samples`.
RunOutcomes(samples) ==
    {Completed(rc, t, e) : rc \in {0, 1}, t \in samples, e \in BOOLEAN}
        \cup {Raised("timeout"), Raised("oserror"), Raised("interrupt")}

OutcomeTag(o) ==
    IF o.kind = "completed"
    THEN IF o.returncode = 0 THEN "exit_zero" ELSE "exit_nonzero"
    ELSE o.kind

\* the except clauses after the invocation: TimeoutExpired has its own
\* message, any other Exception the generic one; KeyboardInterrupt is not
\* an Exception and leaves the function.
FailureOut_genericFirst(kind) ==
    IF kind \in {"timeout", "oserror"} THEN <<"error_msg">> ELSE <<>>

FailureOut(kind) ==
    IF kind = "timeout" THEN <<"timeout_msg">>
    ELSE IF kind = "oserror" THEN <<"error_msg">>
    ELSE <<>>

FailureExc(kind) == IF kind = "interrupt" THEN "interrupt" ELSE "none"

\* The result of running a function of class Solara: what it printed, what
\* it raised to its caller, the scan invocations of nmap it made, what the
\* invocation did, and how many colorize calls had no forced colour; for
\* wifi_scan also what get_local_network met (net_env) and the network
\* handed to nmap (network); for the scans of a target what the user
\* answered to the authorization prompt (answer, Absent when not asked);
\* for website_scan the user's answers to its prompts (web).
Result(op, out, exc, ran, outcome, adv) ==
    [op |-> op, out |-> out, exc |-> exc, ran |-> ran, outcome |-> outcome,
     adv |-> adv, color_num |-> <<>>, net_env |-> "none", network |-> "none",
     answer |-> Absent, web |-> NoStep.web]

ClosedWord == <<"c","l","o","s","e","d">>
FilteredWord == <<"f","i","l","t","e","r","e","d">>
ReportWord == <<"N","m","a","p"," ","s","c","a","n"," ","r","e","p","o","r","t">>

\* test.py basic_scan: the forced colour of an output line (0: none, the
\* current theme colour)
BasicLineColor(line) ==
    IF Contains(Lower(line), OpenWord) THEN 2
    ELSE IF Contains(Lower(line), ClosedWord) \/ Contains(Lower(line), FilteredWord) THEN 3
    ELSE IF Contains(line, ReportWord) THEN 4
    ELSE 0

\* test.py port_scan: the forced colour of an output line (0: none)
PortLineColor(line) ==
    IF Contains(line, SlashTcp) /\ Contains(line, OpenWord) THEN 2
    ELSE IF Contains(line, SlashTcp)
            /\ (Contains(line, ClosedWord) \/ Contains(line, FilteredWord)) THEN 3
    ELSE 0

\* the number of lines of the output printed in the current theme colour
UnforcedLines(kind, text) ==
    Cardinality({i \in 1..Len(text) :
                    IF kind = "basic" THEN BasicLineColor(text[i]) = 0
                    ELSE PortLineColor(text[i]) = 0})

\* basic_scan, port_scan, stealth_scan, vulnerability_scan, network_discovery
\* on `target`, the user answering the authorization prompt with `answer`,
\* the invocation doing `o`.
SimpleScan(p, kind, target, answer, o) ==
    LET v == ValidateTarget(target, answer)
        running == IF kind = "stealth" THEN <<"running", "note_root">> ELSE <<"running">>
        shown == IF kind = "basic" /\ o.stderr
                 THEN <<"results_header", "results", "stderr">>
                 ELSE <<"results_header", "results">>
        r == IF v.exc # "none" THEN Result(kind, v.out, v.exc, 0, "none", 0)
             ELSE IF ~v.ok THEN Result(kind, v.out \o <<"cancelled">>, "none", 0, "none", 0)
             ELSE IF o.kind = "completed"
             THEN Result(kind, v.out \o running \o shown, "none", 1, OutcomeTag(o),
                         IF p = "test" THEN UnforcedLines(kind, o.stdout) ELSE 0)
             ELSE Result(kind, v.out \o running \o FailureOut(o.kind), FailureExc(o.kind), 1,
                         OutcomeTag(o), 0)
    IN [r EXCEPT !.answer = IF v.asked THEN answer ELSE Absent]

\* What get_local_network may meet: a line of `ip route show` names the
\* network of the local address ("route"); no line does, the output of a
\* failed `ip` included ("no_route_line"); running `ip` raises, as when the
\* command is not installed ("ip_command_fails"); the socket raises, there is
\* no local address ("no_local_address").
NetworkEnvs == {"route", "no_route_line", "ip_command_fails", "no_local_address"}

\* get_local_network(): the network it returns ("None" for (None, None)) and
\* what it prints
GetLocalNetwork(env) ==
    IF env = "route" THEN [network |-> "route_network", out |-> <<>>]
    ELSE IF env = "no_route_line" THEN [network |-> "local_ip/24", out |-> <<>>]
    ELSE [network |-> "None", out |-> <<"net_detect_failed">>]

\* the for-loop of wifi_scan over a whole output
RECURSIVE ParseDevicesFrom(_, _)
ParseDevicesFrom(st, text) ==
    IF text = <<>> \/ st.raised THEN st
    ELSE ParseDevicesFrom(DeviceStep(st, Head(text)), Tail(text))

ParseDevices(text) ==
    LET st == ParseDevicesFrom([devices |-> <<>>, current_device |-> EmptyDevice,
                                raised |-> FALSE], text)
    IN [devices |-> DeviceFinish(st), raised |-> st.raised]

\* wifi_scan
WifiScan(p, net, o) ==
    LET parsed == ParseDevices(o.stdout)
        shown == IF parsed.raised THEN <<"results_header", "error_msg">>
                 ELSE IF parsed.devices # <<>> THEN <<"results_header", "devices">>
                 ELSE IF p = "solara" THEN <<"results_header", "no_devices", "raw_output">>
                 ELSE <<"results_header", "no_devices">>
        local == GetLocalNetwork(net)
        r == IF local.network = "None"
             THEN Result("wifi", <<"detecting">> \o local.out \o <<"no_network">>, "none", 0,
                         "none", 0)
             ELSE IF o.kind = "completed"
             THEN Result("wifi", <<"detecting", "net_info", "scanning">> \o shown, "none", 1,
                         OutcomeTag(o), 0)
             ELSE Result("wifi", <<"detecting", "net_info", "scanning">> \o FailureOut(o.kind),
                         FailureExc(o.kind), 1, OutcomeTag(o), 0)
    IN [r EXCEPT !.net_env = net,
                 !.network = IF local.network = "None" THEN "none" ELSE local.network]

\* the for-loop of website_scan over a whole output
RECURSIVE ParsePortsFrom(_, _, _)
ParsePortsFrom(p, st, text) ==
    IF text = <<>> THEN st ELSE ParsePortsFrom(p, PortStep(p, st, Head(text)), Tail(text))

ParsePorts(p, text) ==
    PortRecords(p, ParsePortsFrom(p, [open_ports |-> <<>>, service_info |-> EmptyDict], text))

\* what a call of input() raises when the user sends `a`
InputExc(a) == IF a = CtrlC THEN "interrupt" ELSE IF a = Eof THEN "error" ELSE "none"

SiteOk == <<"<a valid domain>">>
SiteBadFirst == <<"<an invalid entry, then a valid domain>">>

\* website_scan.  w holds the user's answers: w.site (SiteOk: a valid domain
\* at once, SiteBadFirst: an invalid entry first, or CtrlC / Eof), w.confirm,
\* w.choice, w.sub (the answer to the prompt of choice 3, 4 or 5) and
\* w.show_raw (solara.py's last prompt); o is what the invocation does.
WebsiteScan(p, w, o) ==
    LET title == IF w.site = SiteBadFirst THEN <<"ws_title", "invalid_site">> ELSE <<"ws_title">>
        warn == title \o <<"ws_warning">>
        menu == warn \o <<"ws_menu">>
        choice == Strip(w.choice)
        records == ParsePorts(p, o.stdout)
        shown == IF records # <<>>
                 THEN IF p = "solara" THEN <<"results_header", "open_ports", "security_notes">>
                      ELSE <<"results_header", "open_ports">>
                 ELSE <<"results_header", "no_open_ports">>
        raw == IF o.stderr THEN <<"raw_output", "stderr">> ELSE <<"raw_output">>
        Stop(out) == Result("website", out, "none", 0, "none", 0)
        Raise(out, exc) == Result("website", out, exc, 0, "none", 0)
        Run(out) ==
            IF o.kind # "completed"
            THEN Result("website", out \o <<"running">> \o FailureOut(o.kind),
                        FailureExc(o.kind), 1, OutcomeTag(o), 0)
            ELSE IF p = "test"
            THEN Result("website", out \o <<"running">> \o shown, "none", 1, OutcomeTag(o), 0)
            ELSE IF w.show_raw = CtrlC
            THEN Result("website", out \o <<"running">> \o shown \o <<"scan_completed">>,
                        "interrupt", 1, OutcomeTag(o), 0)
            ELSE IF w.show_raw = Eof
            THEN Result("website", out \o <<"running">> \o shown \o <<"scan_completed", "error_msg">>,
                        "none", 1, OutcomeTag(o), 0)
            ELSE IF Lower(w.show_raw) \in {Yes, YesShort}
            THEN Result("website", out \o <<"running">> \o shown \o <<"scan_completed">> \o raw,
                        "none", 1, OutcomeTag(o), 0)
            ELSE Result("website", out \o <<"running">> \o shown \o <<"scan_completed">>,
                        "none", 1, OutcomeTag(o), 0)
        r == IF w.site \in {CtrlC, Eof} THEN Raise(<<"ws_title">>, InputExc(w.site))
             ELSE IF InputExc(w.confirm) # "none" THEN Raise(warn, InputExc(w.confirm))
             ELSE IF ~IsYes(w.confirm) THEN Stop(warn \o <<"cancelled">>)
             ELSE IF InputExc(w.choice) # "none" THEN Raise(menu, InputExc(w.choice))
             ELSE IF choice \in {<<"1">>, <<"2">>} THEN Run(menu)
             ELSE IF choice = <<"3">>
             THEN IF InputExc(w.sub) # "none"
                  THEN Raise(menu \o <<"full_scan_warning">>, InputExc(w.sub))
                  ELSE IF ~IsYes(w.sub)
                  THEN Stop(menu \o <<"full_scan_warning", "full_scan_cancelled">>)
                  ELSE Run(menu \o <<"full_scan_warning">>)
             ELSE IF choice = <<"4">>
             THEN IF InputExc(w.sub) # "none" THEN Raise(menu, InputExc(w.sub))
                  ELSE IF Strip(w.sub) = <<>> THEN Stop(menu \o <<"invalid_range">>)
                  ELSE Run(menu)
             ELSE IF choice = <<"5">>
             THEN IF InputExc(w.sub) # "none" THEN Raise(menu, InputExc(w.sub))
                  ELSE IF ~IsDigits(Strip(w.sub)) THEN Stop(menu \o <<"invalid_port">>)
                  ELSE Run(menu)
             ELSE Stop(menu \o <<"invalid_choice">>)
    IN [r EXCEPT !.web = w]

(***************************************************************************)
(* The inputs of a session.                                                *)
(***************************************************************************)
PrivateTarget == <<"1","0",".","1">>
PublicTarget == <<"8",".","8">>
Targets == {PrivateTarget, PublicTarget}
\* Further targets around the edges of the private patterns.
EdgeTargets ==
    { <<"1","7","2",".","2","0",".","1">>,
      <<"1","7","2",".","3","2",".","1">>,
      <<"1","0","0",".","1">>,
      <<"l","o","c","a","l","h","o","s","t">>,
      <<"l","o","c","a","l","h","o","s","t","s">> }

\* Outputs of nmap on a scanned target.
ScanSamples ==
    { <<<<>>>>,
      << ReportHeader \o <<" ","1">>,
         <<"2","2","/","t","c","p"," ","o","p","e","n"," ","s","s","h">>,
         <<"x">> >> }

\* Outputs of nmap -sn: none, a well-formed report, a header without host.
WifiSamples ==
    { <<<<>>>>,
      << ReportHeader \o <<" ","h"," ","(","2",")">>, HostIsUp, MacPrefixSp \o <<"A">> >>,
      << ReportHeader >> }

\* Outputs of the website scan: no open port, two open ports.
WebSamples ==
    { <<<<>>>>,
      << <<"2","2","/","t","c","p"," ","o","p","e","n"," ","s","s","h">>,
         <<"8","0","/","t","c","p"," ","o","p","e","n"," ","w">> >> }

\* The user's answers in website_scan.
WebInputs ==
    [site : {SiteOk, SiteBadFirst, CtrlC},
     confirm : {Yes, <<"Y">>, <<"n","o">>, CtrlC, Eof},
     choice : {<<"1">>, <<"2">>, <<"3">>, <<"4">>, <<"5">>, <<"7">>, Eof},
     sub : {Yes, <<"n","o">>, <<>>, <<"8","0">>, CtrlC},
     show_raw : {YesShort, <<>>, CtrlC, Eof}]

SimpleScanResults(p, kind, target) ==
    {SimpleScan(p, kind, target, a, o) : a \in Answers, o \in RunOutcomes(ScanSamples)}

WifiScanResults(p) ==
    {WifiScan(p, n, o) : n \in NetworkEnvs, o \in RunOutcomes(WifiSamples)}

WebsiteScanResults(p) ==
    {WebsiteScan(p, w, o) : w \in WebInputs, o \in RunOutcomes(WebSamples)}

(***************************************************************************)
(* interactive_mode: one iteration of the while-loop.                      *)
(***************************************************************************)
W_exit == <<"e","x","i","t">>
W_help == <<"h","e","l","p">>
W_color == <<"c","o","l","o","r">>
W_basic == <<"b","a","s","i","c">>
W_ports == <<"p","o","r","t","s">>
W_stealth == <<"s","t","e","a","l","t","h">>
W_vuln == <<"v","u","l","n">>
W_website == <<"w","e","b","s","i","t","e">>
W_wifi == <<"w","i","f","i">>
W_discover == <<"d","i","s","c","o","v","e","r">>

\* the number of characters of the help line shown in rainbow colours,
\* "color 99       - Rainbow mode!", each printed by its own colorize call
HelpRainbowChars == 30
\* the number of banner lines print_banner prints in the theme colour
BannerLines == 7

\* show_help: the commands the help text lists (items 1 to 9 of solara.py,
\* 1 to 10 of test.py)
HelpCommands(p) ==
    {W_basic, W_ports, W_stealth, W_vuln, W_discover, W_wifi, W_website, W_help, W_exit}
        \cup (IF p = "test" THEN {W_color} ELSE {})

\* What input() of the prompt returns, split into words: command lines, or
\* the exception it raises (<<CtrlC>>, <<Eof>>).
ColorTokens == { <<"0">>, <<"2">>, <<"2","0">>, <<"2","1">>, <<"9","9">>,
                 <<"-","1">>, <<"x">> }

Commands ==
    { <<>>, <<CtrlC>>, <<Eof>>,
      <<W_exit>>, <<<<"E","x","i","t">>>>, <<W_help>>, <<<<"b","o","g","u","s">>>>,
      <<W_color>>, <<W_wifi>>, <<W_website>>,
      <<W_basic>>, <<W_ports>>, <<W_stealth>>, <<W_vuln>>, <<W_discover>> }
    \cup {<<W_color, t>> : t \in ColorTokens}
    \cup {<<w, t>> : w \in {W_basic, W_ports, W_stealth, W_vuln, W_discover}, t \in Targets}
    \cup {<<W_ports, PrivateTarget, <<"8","0">>>>}

Plain(op, out) == Result(op, out, "none", 0, "none", 0)

\* the body of the try block for the words `command`: the results it may have
Dispatch(p, command) ==
    LET cmd == Lower(command[1])
        n == Len(command)
    IN IF command = <<CtrlC>> THEN {Result("input", <<>>, "interrupt", 0, "none", 0)}
       ELSE IF command = <<Eof>> THEN {Result("input", <<>>, "error", 0, "none", 0)}
       ELSE IF command = <<>> THEN {Plain("empty", <<>>)}
       ELSE IF cmd = W_exit THEN {Plain("exit", <<"bye">>)}
       ELSE IF cmd = W_help
       THEN {Result("help", <<"help">>, "none", 0, "none",
                    IF p = "test" THEN HelpRainbowChars ELSE 0)}
       ELSE IF p = "test" /\ cmd = W_color
       THEN IF n > 1
            THEN IF IsInt(command[2])
                 THEN {[Result("set_color", <<>>, "none", 0, "none", 1)
                           EXCEPT !.color_num = <<IntOf(command[2])>>]}
                 ELSE {Plain("color_invalid", <<"invalid_color_number">>)}
            ELSE {Plain("color_menu", <<"color_menu">>)}
       ELSE IF cmd = W_basic
       THEN IF n > 1 THEN SimpleScanResults(p, "basic", command[2])
            ELSE {Plain("usage", <<"usage">>)}
       ELSE IF cmd = W_ports
       THEN IF n > 1 THEN SimpleScanResults(p, "ports", command[2])
            ELSE {Plain("usage", <<"usage">>)}
       ELSE IF p = "solara" /\ cmd = W_stealth
       THEN IF n > 1 THEN SimpleScanResults(p, "stealth", command[2])
            ELSE {Plain("usage", <<"usage">>)}
       ELSE IF p = "solara" /\ cmd = W_vuln
       THEN IF n > 1 THEN SimpleScanResults(p, "vuln", command[2])
            ELSE {Plain("usage", <<"usage">>)}
       ELSE IF cmd = W_website THEN WebsiteScanResults(p)
       ELSE IF cmd = W_wifi THEN WifiScanResults(p)
       ELSE IF p = "solara" /\ cmd = W_discover
       THEN IF n > 1 THEN SimpleScanResults(p, "discover", command[2])
            ELSE {Plain("usage", <<"usage">>)}
       ELSE {Plain("unknown", <<"unknown_command">>)}

\* The loop's history keeps no record of the answers given inside an
\* operation.
Unrecorded(r) == [r EXCEPT !.answer = Absent, !.web = NoStep.web]

\* All results of all commands, computed once.
StepResults ==
    [p \in Programs |-> [c \in Commands |-> {Unrecorded(r) : r \in Dispatch(p, c)}]]

\* where the loop goes after an iteration: `break` on exit and in the
\* KeyboardInterrupt handler; the Exception handler reports and continues
\* A variant of the loop that goes on after a keyboard interrupt.
LoopNext_exitOnly(op, exc) == IF op = "exit" THEN "ended" ELSE "prompt"

LoopNext_breakOnError(op, exc) ==
    IF op = "exit" \/ exc \in {"interrupt", "error"} THEN "ended" ELSE "prompt"

LoopNext(op, exc) ==
    IF op = "exit" \/ exc = "interrupt" THEN "ended" ELSE "prompt"

\* what the handlers of the loop print
LoopOut(exc) ==
    IF exc = "interrupt" THEN <<"interrupt_bye">>
    ELSE IF exc = "error" THEN <<"loop_error">>
    ELSE <<>>

\* the message of the `color <n>` command after set_color
ColorCommandOut(color_num) ==
    SetColorOut(color_num)
        \o (IF color_num = RainbowMode THEN <<"rainbow_activated">> ELSE <<"color_changed">>)

\* current_color after an iteration that ran result r: set_color is called
\* in the `color <n>` branch only, no other statement of the loop or of the
\* functions it calls assigns current_color
ThemeAfter_resetOnFailure(r, cur) ==
    IF r.op = "set_color" THEN SetColor(cur, r.color_num[1])
    ELSE IF r.exc # "none" \/ r.outcome \in {"timeout", "oserror"} THEN DefaultColor
    ELSE cur

ThemeAfter(r, cur) ==
    IF r.op = "set_color" THEN SetColor(cur, r.color_num[1]) ELSE cur

\* One iteration of the loop of interactive_mode: read a command, run it.
ReplCommand ==
    /\ pc = "prompt"
    /\ \E command \in Commands : \E r \in StepResults[prog][command] :
          LET next == LoopNext(r.op, r.exc)
              cur == ThemeAfter(r, current_color)
          IN /\ pc' = next
             /\ current_color' = cur
             /\ rainbow_index' = Advance(cur, rainbow_index, r.adv)
             /\ printed' = IF r.op = "set_color"
                           THEN ColorCommandOut(r.color_num[1])
                           ELSE r.out \o LoopOut(r.exc)
             /\ last' = [command |-> command, op |-> r.op, outcome |-> r.outcome,
                         exc |-> r.exc, color_num |-> r.color_num,
                         old_color |-> IF r.op = "set_color" THEN <<current_color>> ELSE <<>>,
                         net_env |-> r.net_env, network |-> r.network,
                         answer |-> r.answer, web |-> r.web]
             /\ scans_run' = IF r.ran > 0 THEN Saturate(scans_run) ELSE scans_run
             /\ prompts_shown' = IF next = "prompt" THEN Saturate(prompts_shown)
                                 ELSE prompts_shown
             /\ exit_status' = 0
    /\ UNCHANGED <<prog, args>>
    /\ UNCHANGED parserVars

(***************************************************************************)
(* main                                                                    *)
(***************************************************************************)
\* the choices of --scan-type
ScanTypes(p) ==
    IF p = "solara" THEN {"basic", "ports", "stealth", "vuln", "discover", "wifi", "website"}
    ELSE {"basic", "ports", "wifi", "website"}

\* Command lines: none, a target or a scan type alone, an empty target, both,
\* and (test.py) a colour.
ArgsSet(p) ==
    { NoArgs,
      [NoArgs EXCEPT !.target = PrivateTarget],
      [NoArgs EXCEPT !.scan_type = "basic"],
      [NoArgs EXCEPT !.target = <<>>, !.scan_type = "basic"],
      [NoArgs EXCEPT !.target = PublicTarget, !.scan_type = "basic"] }
    \cup {[NoArgs EXCEPT !.target = PrivateTarget, !.scan_type = k] : k \in ScanTypes(p)}
    \cup (IF p = "test"
          THEN {[NoArgs EXCEPT !.color = <<c>>] : c \in {0, 2, 21, 99}}
                 \cup {[target |-> PrivateTarget, scan_type |-> "basic", color |-> <<99>>]}
          ELSE {})

\* bool(s) of an optional string
TruthyString(t) == t # Absent /\ t # <<>>

\* if args.target and args.scan_type:
IsOneShot(a) == TruthyString(a.target) /\ a.scan_type # "None"

\* if args.color: (test.py)
ColorGiven(p, a) == p = "test" /\ a.color # <<>> /\ a.color[1] # 0

\* check_nmap_installed: nmap --version succeeds ("ok"), exits non-zero or
\* is not found (the two exceptions caught: False is returned), or raises
\* another OSError such as PermissionError, which is not caught.
CheckOutcomes == {"ok", "called_process_error", "file_not_found", "permission_error"}
CheckFails(check) == check \in {"called_process_error", "file_not_found"}

\* where main goes after the start-up check
StartNext_ignoreCheck(oneshot, check) ==
    IF check = "permission_error" THEN "ended"
    ELSE IF oneshot THEN (IF CheckFails(check) THEN "ended" ELSE "oneshot")
    ELSE "prompt"

StartNext(oneshot, check) ==
    IF check # "ok" THEN "ended"
    ELSE IF oneshot THEN "oneshot"
    ELSE "prompt"

\* what main prints up to the first prompt or the one-shot scan
StartOut(oneshot, check) ==
    (IF oneshot THEN <<>> ELSE <<"banner">>)
        \o (IF CheckFails(check) THEN <<"not_installed">>
            ELSE IF check = "permission_error" THEN <<"traceback">>
            ELSE IF oneshot THEN <<>>
            ELSE <<"help">>)

\* sys.exit(1) of the one-shot mode; an uncaught exception ends python with 1
StartExit(oneshot, check) ==
    IF check = "permission_error" \/ (oneshot /\ CheckFails(check)) THEN 1 ELSE 0

\* main up to the first prompt or the one-shot scan: --color, the mode, the
\* start-up check, and in interactive mode the banner and the help.
Start ==
    /\ pc = "start"
    /\ \E check \in CheckOutcomes :
          LET oneshot == IsOneShot(args)
              cur == IF ColorGiven(prog, args) THEN SetColor(current_color, args.color[1])
                     ELSE current_color
              out == IF ColorGiven(prog, args) THEN SetColorOut(args.color[1]) ELSE <<>>
              adv == IF prog = "solara" \/ oneshot THEN 0
                     ELSE IF check = "ok" THEN BannerLines + HelpRainbowChars
                     ELSE BannerLines
              next == StartNext(oneshot, check)
          IN /\ pc' = next
             /\ current_color' = cur
             /\ rainbow_index' = Advance(cur, rainbow_index, adv)
             /\ printed' = out \o StartOut(oneshot, check)
             /\ last' = [NoStep EXCEPT !.op = "startup", !.outcome = check,
                                       !.exc = IF check = "permission_error" THEN "error"
                                               ELSE "none"]
             /\ prompts_shown' = IF next = "prompt" THEN 1 ELSE 0
             /\ exit_status' = StartExit(oneshot, check)
    /\ UNCHANGED <<prog, args, scans_run>>
    /\ UNCHANGED parserVars

\* the scan of the one-shot mode
OneShotDispatch(p, a) ==
    IF a.scan_type = "wifi" THEN WifiScanResults(p)
    ELSE IF a.scan_type = "website" THEN WebsiteScanResults(p)
    ELSE SimpleScanResults(p, a.scan_type, a.target)

\* the exit status of python after the one-shot scan: 0, or that of an
\* uncaught exception (1) or KeyboardInterrupt (130)
OneShotExit(exc) == IF exc = "none" THEN 0 ELSE IF exc = "error" THEN 1 ELSE 130

OneShot ==
    /\ pc = "oneshot"
    /\ \E r \in OneShotDispatch(prog, args) :
          /\ pc' = "ended"
          /\ rainbow_index' = Advance(current_color, rainbow_index, r.adv)
          /\ printed' = r.out \o (IF r.exc = "none" THEN <<>> ELSE <<"traceback">>)
          /\ last' = [command |-> <<>>, op |-> r.op, outcome |-> r.outcome, exc |-> r.exc,
                      color_num |-> <<>>, old_color |-> <<>>,
                      net_env |-> r.net_env, network |-> r.network,
                      answer |-> r.answer, web |-> r.web]
          /\ scans_run' = IF r.ran > 0 THEN Saturate(scans_run) ELSE scans_run
          /\ exit_status' = OneShotExit(r.exc)
    /\ UNCHANGED <<prog, args, current_color, prompts_shown>>
    /\ UNCHANGED parserVars

Init ==
    /\ prog \in Programs
    /\ args \in ArgsSet(prog)
    /\ pc = "start"
    /\ current_color = DefaultColor
    /\ rainbow_index = 0
    /\ printed = <<>>
    /\ last = NoStep
    /\ scans_run = 0
    /\ prompts_shown = 0
    /\ exit_status = 0
    /\ lines = <<>>
    /\ idx = 1
    /\ open_ports = <<>>
    /\ service_info = EmptyDict
    /\ devices = <<>>
    /\ current_device = EmptyDevice

Next == Start \/ OneShot \/ ReplCommand

Spec == Init /\ [][Next]_vars

(***************************************************************************)
(* The scan operations called on their own: main in one-shot mode after    *)
(* the start-up check succeeded, for every scan kind and target.           *)
(***************************************************************************)
InitScans ==
    /\ prog \in Programs
    /\ \E t \in Targets \cup EdgeTargets : \E k \in ScanTypes(prog) :
          args = [target |-> t, scan_type |-> k, color |-> <<>>]
    /\ pc = "oneshot"
    /\ current_color = DefaultColor
    /\ rainbow_index = 0
    /\ printed = <<>>
    /\ last = [NoStep EXCEPT !.op = "startup", !.outcome = "ok"]
    /\ scans_run = 0
    /\ prompts_shown = 0
    /\ exit_status = 0
    /\ lines = <<>>
    /\ idx = 1
    /\ open_ports = <<>>
    /\ service_info = EmptyDict
    /\ devices = <<>>
    /\ current_device = EmptyDevice

NextScans == OneShot

SpecScans == InitScans /\ [][NextScans]_vars

(***************************************************************************)
(* test.py basic_scan and port_scan: the loop that prints the output of    *)
(* nmap line by line, each line in the colour of its kind.  last.op names  *)
(* the scan ("basic" or "ports"), printed collects the colorized lines.    *)
(***************************************************************************)
\* Lines of nmap output as the scans print them.
RenderLines ==
    { <<>>,
      <<"x">>,
      <<"2","2","/","t","c","p"," ","o","p","e","n"," ","s","s","h">>,
      <<"2","2","/","t","c","p"," ","c","l","o","s","e","d">>,
      <<"9","/","t","c","p"," ","f","i","l","t","e","r","e","d">>,
      <<"O","P","E","N">>,
      ReportHeader \o <<" ","1">>,
      ReportHeader \o <<" ","o","p","e","n",".","x">> }

\* The theme states a scan may be called in: any palette colour or the
\* rainbow mode, the rainbow index wherever earlier output left it.
RenderThemes == {<<c, i>> : c \in {DefaultColor, 5, RainbowMode}, i \in 0..(RainbowLen - 1)}

\* the forced colour of a line (0: none)
LineColor(kind, line) ==
    IF kind = "basic" THEN BasicLineColor(line) ELSE PortLineColor(line)

InitRender ==
    /\ prog = "test"
    /\ pc = "render_loop"
    /\ lines \in Texts(RenderLines)
    /\ idx = 1
    /\ \E theme \in RenderThemes : current_color = theme[1] /\ rainbow_index = theme[2]
    /\ \E kind \in {"basic", "ports"} : last = [NoStep EXCEPT !.op = kind]
    /\ printed = <<>>
    /\ open_ports = <<>>
    /\ service_info = EmptyDict
    /\ devices = <<>>
    /\ current_device = EmptyDevice
    /\ args = NoArgs
    /\ scans_run = 0
    /\ prompts_shown = 0
    /\ exit_status = 0

\* for line in output_lines: print(self.colors.colorize(line, ...))
RenderLine ==
    /\ pc = "render_loop"
    /\ idx <= Len(lines)
    /\ LET force_color == LineColor(last.op, lines[idx])
       IN /\ printed' = Append(printed, Colorize(current_color, rainbow_index, lines[idx],
                                                  force_color))
          /\ rainbow_index' = ColorCode(current_color, rainbow_index, force_color).index
    /\ idx' = idx + 1
    /\ UNCHANGED <<prog, pc, lines, current_color, last, args, scans_run, prompts_shown,
                   exit_status, open_ports, service_info, devices, current_device>>

\* the loop is over
RenderEnd ==
    /\ pc = "render_loop"
    /\ idx > Len(lines)
    /\ pc' = "rendered"
    /\ UNCHANGED <<prog, lines, idx, current_color, rainbow_index, printed, last, args,
                   scans_run, prompts_shown, exit_status, open_ports, service_info,
                   devices, current_device>>

NextRender == RenderLine \/ RenderEnd

SpecRender == InitRender /\ [][NextRender]_vars

(***************************************************************************)
(* Claims about the session (Spec).                                        *)
(***************************************************************************)
\* The last step printed message `tag`, and how often.
Printed(tag) == \E i \in 1..Len(printed) : printed[i] = tag
PrintedCount(tag) == Cardinality({i \in 1..Len(printed) : printed[i] = tag})

\* The messages that display the result of a scan.
ResultShown ==
    \E i \in 1..Len(printed) :
        printed[i] \in {"results_header", "results", "stderr", "devices", "no_devices",
                        "raw_output", "open_ports", "no_open_ports", "security_notes",
                        "scan_completed"}

\* C5: selecting a colour number that is neither 1..20 nor 99, by the command
\* `color n` or by --color at start-up, from any theme, raises nothing and
\* leaves the default theme 1 selected.
C5_InvalidColorFallsBack ==
    /\ (last.op = "set_color" /\ last.color_num[1] \notin (1..20) \cup {99})
          => /\ current_color = 1
             /\ last.exc = "none"
             /\ ~Printed("loop_error")
             /\ pc = "prompt"
    /\ (last.op = "startup" /\ prog = "test" /\ args.color # <<>>
           /\ args.color[1] \notin (1..20) \cup {99})
          => current_color = 1

\* C5 witness: in rainbow mode, `color 21` was read and the theme is 1 again.
C5_Witness ==
    /\ last.op = "set_color"
    /\ last.color_num = <<21>>
    /\ last.old_color = <<99>>
    /\ current_color = 1
    /\ pc = "prompt"

\* C6: in every scan operation, when the invocation exceeds its timeout the
\* timeout message is printed, the generic error message is not, and no
\* result is displayed.
C6_TimeoutMessage ==
    last.outcome = "timeout" =>
        /\ Printed("timeout_msg")
        /\ ~Printed("error_msg")
        /\ ~Printed("loop_error")
        /\ ~ResultShown

\* C6 witness: a website scan of solara.py whose invocation timed out.
C6_Witness ==
    /\ prog = "solara"
    /\ last.op = "website"
    /\ last.outcome = "timeout"
    /\ printed[Len(printed)] = "timeout_msg"

\* C7: a non-zero exit status of the scanning command is a hard failure: it
\* is reported and the operation is aborted, its output not displayed.
C7_NonZeroExitIsFailure ==
    last.outcome = "exit_nonzero" => Printed("error_msg") /\ ~ResultShown

\* The run is in interactive mode and past the start-up.
InLoop == ~IsOneShot(args) /\ last.op \notin {"none", "startup"}

\* The last operation ended in a timeout or another invocation or parsing
\* error, or raised an Exception to the loop.
LastFailed ==
    \/ last.outcome \in {"timeout", "oserror"}
    \/ last.exc = "error"
    \/ Printed("error_msg")

\* C9: in interactive mode a scan that ends in a timeout or another error
\* does not end the session: the prompt is shown again and a further
\* command can be processed; the loop ends only on `exit` or on a keyboard
\* interrupt.
C9_SessionContinues ==
    /\ (InLoop /\ LastFailed /\ last.exc # "interrupt")
          => pc = "prompt" /\ ENABLED ReplCommand
    /\ (InLoop /\ pc = "ended")
          => \/ last.exc = "interrupt"
             \/ last.command # <<>> /\ Lower(last.command[1]) = W_exit

\* C9 witness: a wifi scan timed out in interactive mode and the prompt is
\* shown again.
C9_Witness ==
    /\ InLoop
    /\ last.op = "wifi"
    /\ last.outcome = "timeout"
    /\ pc = "prompt"
    /\ prompts_shown = 2

C11_ThemeOnlyBySelection ==
    [][/\ pc = "start" => current_color = DefaultColor
       /\ (pc = "start" /\ args.color = <<>>) => current_color' = current_color
       /\ pc = "oneshot" => current_color' = current_color
       /\ pc = "prompt" =>
             \/ current_color' = current_color
             \/ /\ Len(last'.command) > 1
                /\ Lower(last'.command[1]) = W_color
                /\ IsInt(last'.command[2])]_vars

\* C11 witness: with the rainbow theme selected, a basic scan timed out and
\* the theme is still the rainbow theme.
C11_Witness ==
    /\ pc = "prompt"
    /\ last.op = "basic"
    /\ last.outcome = "timeout"
    /\ current_color = RainbowMode
    /\ args.color = <<>>

(***************************************************************************)
(* Claims about colours and parsing (SpecParsers).                         *)
(***************************************************************************)
\* The output lines the parse loop has read so far.
LinesRead == SubSeq(lines, 1, idx - 1)

\* The state of the port loop after reading `text` in theme state (cur, ri).
RECURSIVE PortsUnder(_, _, _, _, _)
PortsUnder(p, cur, ri, st, text) ==
    IF text = <<>> THEN st
    ELSE PortsUnder(p, cur, ri, PortStep(p, st, ScanLine(cur, ri, Head(text))), Tail(text))

\* The state of the device loop after reading `text` in theme state (cur, ri).
RECURSIVE DevicesUnder(_, _, _, _)
DevicesUnder(cur, ri, st, text) ==
    IF text = <<>> \/ st.raised THEN st
    ELSE DevicesUnder(cur, ri, DeviceStep(st, ScanLine(cur, ri, Head(text))), Tail(text))

\* C12: the parsed records do not depend on the colour theme: the port
\* records (port, service) and the device records (IP, hostname, MAC, vendor,
\* status) parsed from an output in one theme state are those parsed from
\* the same output in every other theme state (palette colour or rainbow
\* mode, any rainbow index).
C12_RecordsIndependentOfTheme ==
    \A theme \in ThemeStates(prog) :
        /\ pc \in {"web_loop", "web_parsed"} =>
              LET other == PortsUnder(prog, theme[1], theme[2],
                                      [open_ports |-> <<>>, service_info |-> EmptyDict],
                                      LinesRead)
              IN /\ open_ports = other.open_ports
                 /\ service_info = other.service_info
        /\ pc \in {"wifi_loop", "wifi_raised", "wifi_parsed"} =>
              LET other == DevicesUnder(theme[1], theme[2],
                                        [devices |-> <<>>, current_device |-> EmptyDevice,
                                         raised |-> FALSE],
                                        LinesRead)
              IN /\ devices = IF pc = "wifi_parsed" THEN DeviceFinish(other) ELSE other.devices
                 /\ current_device = other.current_device

\* C12 witness: test.py parsed, in rainbow mode with the index at 4, an
\* output with two open-port lines into two records.
C12_Witness ==
    /\ prog = "test"
    /\ pc = "web_parsed"
    /\ current_color = RainbowMode
    /\ rainbow_index = 4
    /\ Len(open_ports) = 2
    /\ open_ports[1][1] # open_ports[2][1]

(***************************************************************************)
(* Claims about the rendering of scan output (SpecRender).                 *)
(***************************************************************************)
\* The escape sequence the i-th printed line starts with.
CodeOf(i) == printed[i][1]

\* The escape sequences of the current theme.
ThemeCodes ==
    IF current_color = RainbowMode THEN {RainbowColors[k] : k \in 1..RainbowLen}
    ELSE {ColorMap[current_color]}

\* C13: in the output of a basic scan every header line ('Nmap scan report
\* ...'), also one whose host name contains 'open', 'closed' or 'filtered',
\* is printed in the header colour 4, every other 'open' line in the open
\* colour 2, every other 'closed' or 'filtered' line in the closed colour 3,
\* and every remaining line in the colour of the current theme.
C13_BasicLineColours ==
    last.op = "basic" =>
        \A i \in 1..Len(printed) :
            IF Contains(lines[i], ReportWord) THEN CodeOf(i) = ColorMap[4]
            ELSE IF Contains(Lower(lines[i]), OpenWord) THEN CodeOf(i) = ColorMap[2]
            ELSE IF Contains(Lower(lines[i]), ClosedWord)
                    \/ Contains(Lower(lines[i]), FilteredWord) THEN CodeOf(i) = ColorMap[3]
            ELSE CodeOf(i) \in ThemeCodes

(***************************************************************************)
(* Claims about the modes of a run (Spec).                                 *)
(***************************************************************************)
\* The command line gives both --target and --scan-type.
GivesTargetAndKind == args.target # Absent /\ args.scan_type # "None"

\* C14: with the tool installed, a command line that gives both a target and
\* a scan kind selects the one-shot mode: the scan operation of that kind is
\* run once, then the run ends, and no prompt is ever shown; every other
\* command line enters the interactive loop, and no scan has run when the
\* first prompt is shown.
C14_OneShotIffTargetAndKind ==
    /\ (last.op = "startup" /\ last.outcome = "ok") =>
          /\ scans_run = 0
          /\ IF GivesTargetAndKind THEN pc = "oneshot" /\ prompts_shown = 0
             ELSE pc = "prompt" /\ prompts_shown = 1
    /\ (GivesTargetAndKind /\ last.op \notin {"none", "startup"}) =>
          /\ pc = "ended"
          /\ last.op = args.scan_type
          /\ prompts_shown = 0
          /\ ~ENABLED Next

(***************************************************************************)
(* Claims about the wifi mode (Spec).                                      *)
(***************************************************************************)
\* C15: in a wifi scan, when the local address is known but reading the
\* route configuration fails (the `ip` command cannot be run, or its output
\* names no network), the /24 network around the local address is assumed
\* and the discovery scan is still run on it.
C15_WifiFallsBackToSlash24 ==
    (last.op = "wifi" /\ last.net_env \in {"no_route_line", "ip_command_fails"}) =>
        /\ last.network = "local_ip/24"
        /\ Printed("scanning")
        /\ scans_run > 0

(***************************************************************************)
(* Claims about the commands of the loop (Spec).                           *)
(***************************************************************************)
\* C16: every command that the help text of the running program lists is
\* accepted by its interactive loop: it is dispatched to an operation and
\* never answered with the 'Unknown command' message.
C16_HelpCommandsDispatched ==
    (/\ last.command # <<>>
     /\ Lower(last.command[1]) \in HelpCommands(prog))
    => /\ last.op # "unknown"
       /\ ~Printed("unknown_command")

(***************************************************************************)
(* Claims about the fields of a port record (SpecPorts).                   *)
(***************************************************************************)
\* The line the port loop has just read, and its whitespace-delimited tokens.
LastPortLine == lines[idx - 1]
LastTokens == SplitWS(LastPortLine)

\* The part of token tok before its first '/'.
BeforeSlash(tok) == IF Find(tok, Slash) = 0 THEN tok ELSE SubSeq(tok, 1, Find(tok, Slash) - 1)

\* The tokens after the third, joined by single spaces.
RestJoined(toks) == IF Len(toks) > 3 THEN Join(SubSeq(toks, 4, Len(toks)), <<" ">>) ELSE <<>>

\* The record of the line just read, as the display loop reads it.
LastPortRecord == CurrentPortRecords[Len(CurrentPortRecords)]

\* C17: for a line containing '/tcp' and 'open' the parser sets port to the
\* part of the first token before its first '/', service to the third token
\* ('unknown' when there are fewer than three), and version to the remaining
\* tokens joined by single spaces (empty when there are none).
C17_PortFields ==
    (/\ pc \in {"web_loop", "web_parsed"}
     /\ idx > 1
     /\ Contains(LastPortLine, SlashTcp)
     /\ Contains(LastPortLine, OpenWord))
    => /\ Len(CurrentPortRecords) > 0
       /\ LastPortRecord.port = BeforeSlash(LastTokens[1])
       /\ LastPortRecord.service = (IF Len(LastTokens) >= 3 THEN LastTokens[3] ELSE UnknownLc)
       /\ LastPortRecord.version = RestJoined(LastTokens)

(***************************************************************************)
(* Claims about the bookkeeping of device records (SpecDevices).           *)
(***************************************************************************)
\* The lines that set a MAC and a vendor, and the lines that set the status.
MacLines == {j \in 1..Len(lines) : /\ j \notin HeaderLines
                                   /\ StartsWith(Strip(lines[j]), MacPrefix)}
UpLines == {j \in 1..Len(lines) : /\ j \notin HeaderLines
                                  /\ j \notin MacLines
                                  /\ Contains(Strip(lines[j]), HostIsUp)}

\* The most recent header line before line j (0 when there is none).
OwnerOf(j) ==
    LET before == {i \in HeaderLines : i < j}
    IN IF before = {} THEN 0 ELSE CHOOSE i \in before : \A k \in before : k <= i

\* C18: when the output is parsed there is one record per header line, none
\* appended twice and none lost, and the record of a header line carries a
\* MAC and a vendor exactly when a MAC line follows that header before the
\* next one, and the status 'UP' exactly when a 'Host is up' line does: no
\* field ends up in another record.
C18_FieldsInRecordOfTheirHeader ==
    pc = "wifi_parsed" =>
        /\ Len(devices) = Cardinality(HeaderLines)
        /\ \A i \in HeaderLines :
              LET rec == devices[HeaderRank(i)]
              IN /\ rec.ip # Absent
                 /\ rec.hostname # Absent
                 /\ (rec.mac # Absent) = (\E j \in MacLines : OwnerOf(j) = i)
                 /\ (rec.vendor # Absent) = (\E j \in MacLines : OwnerOf(j) = i)
                 /\ (rec.status = Up) = (\E j \in UpLines : OwnerOf(j) = i)

(***************************************************************************)
(* Claims about header lines with a parenthesized address (SpecDevices).   *)
(***************************************************************************)
\* The text of s before the first occurrence of sep (all of s without one).
Before(s, sep) == IF Find(s, sep) = 0 THEN s ELSE SubSeq(s, 1, Find(s, sep) - 1)

\* The text of s after the first occurrence of sep.
After(s, sep) == SubSeq(s, Find(s, sep) + Len(sep), Len(s))

\* C19: a header line containing both '(' and ')' produces a record that
\* carries a hostname, the text between 'for ' and ' (', and an IP, the text
\* between the first '(' and the next ')'.
C19_ParenHeaderRecord ==
    (/\ pc \in {"wifi_loop", "wifi_raised"}
     /\ idx > 1
     /\ StartsWith(LastLine, ReportHeader)
     /\ HasBothParens(LastLine))
    => /\ pc = "wifi_loop"
       /\ current_device.hostname = Before(After(LastLine, ForSep), SpLParen)
       /\ current_device.ip = Before(After(LastLine, LParen), RParen)

(***************************************************************************)
(* Claims about the rainbow mode (SpecRender).                             *)
(***************************************************************************)
\* The rainbow colours in their order: red, yellow, green, cyan, blue,
\* magenta.
RainbowOrder == <<"ESC[91m", "ESC[93m", "ESC[92m", "ESC[96m", "ESC[94m", "ESC[95m">>

\* C20: the rainbow index always lies in 0..5; in rainbow mode (theme 99) a
\* colour request without a forced colour returns the rainbow colour at the
\* index and moves the index to the next one, from the sixth back to the
\* first; a request with a forced colour and every request outside rainbow
\* mode leave the index unchanged.
C20_RainbowCycle ==
    [][/\ rainbow_index \in 0..5
       /\ rainbow_index' \in 0..5
       /\ (pc = "render_loop" /\ idx' = idx + 1) =>
             IF current_color = 99 /\ LineColor(last.op, lines[idx]) = 0
             THEN /\ printed'[idx][1] = RainbowOrder[rainbow_index + 1]
                  /\ rainbow_index' = IF rainbow_index = 5 THEN 0 ELSE rainbow_index + 1
             ELSE rainbow_index' = rainbow_index]_vars

\* C20 witness: in rainbow mode three lines in a row were printed unforced, in
\* cyan, blue and magenta, and the index is back at 0.
C20_Witness ==
    /\ pc = "rendered"
    /\ current_color = 99
    /\ Len(printed) = 3
    /\ <<printed[1][1], printed[2][1], printed[3][1]>> = <<"ESC[96m", "ESC[94m", "ESC[95m">>
    /\ rainbow_index = 0

(***************************************************************************)
(* Claims about the theme selection over a session (Spec).                 *)
(***************************************************************************)
\* C21: whatever colour numbers were selected, valid or not, by the command
\* or at start-up, and whatever other commands ran in between, the current
\* theme is a key of the palette (1..20) or 99, so the colour code of the
\* theme can be looked up: in the palette, or in the rainbow colours at the
\* rainbow index.
C21_ThemeAlwaysValid ==
    /\ current_color \in (1..20) \cup {99}
    /\ current_color # 99 => current_color \in DOMAIN ColorMap
    /\ current_color = 99 => (rainbow_index + 1) \in DOMAIN RainbowColors

\* C21 witness: with theme 20 selected, `color -1` was read: the theme is 1.
C21_Witness ==
    /\ pc = "prompt"
    /\ last.op = "set_color"
    /\ last.color_num = <<-1>>
    /\ last.old_color = <<20>>
    /\ current_color = 1

(***************************************************************************)
(* Claims about the authorization gates of the scans (SpecScans).          *)
(***************************************************************************)
\* The target is of a private or localhost pattern: it starts with '127.',
\* '10.' or '192.168.', or with '172.' and a second octet in 16..31, or it is
\* 'localhost'.
PrivatePattern(t) ==
    \/ StartsWith(t, <<"1","2","7",".">>)
    \/ StartsWith(t, <<"1","0",".">>)
    \/ StartsWith(t, <<"1","9","2",".","1","6","8",".">>)
    \/ t = <<"l","o","c","a","l","h","o","s","t">>
    \/ /\ StartsWith(t, <<"1","7","2",".">>)
       /\ Contains(After(t, <<"1","7","2",".">>), <<".">>)
       /\ LET octet == Before(After(t, <<"1","7","2",".">>), <<".">>)
          IN IsDigits(octet) /\ Len(octet) = 2 /\ DigitsVal(octet) \in 16..31

\* The answer is 'yes' or 'y' in any letter case.
SaidYes(answer) == Lower(answer) \in {<<"y","e","s">>, <<"y">>}

TargetScans == {"basic", "ports", "stealth", "vuln", "discover"}

\* C22: a scan of a target invokes the tool only if the target is of a
\* private pattern or the user answered the authorization prompt with 'yes'
\* or 'y'; with any other answer the scan is cancelled and nothing is
\* invoked.
C22_ScanOnlyWhenAuthorized ==
    (pc = "ended" /\ last.op \in TargetScans) =>
        /\ last.outcome # "none" => (PrivatePattern(args.target) \/ SaidYes(last.answer))
        /\ (/\ ~PrivatePattern(args.target)
            /\ last.answer \notin {CtrlC, Eof}
            /\ ~SaidYes(last.answer))
           => /\ last.outcome = "none"
              /\ scans_run = 0
              /\ Printed("cancelled")

\* C22 witness: a stealth scan of a public target ran after the answer 'YES'.
C22_Witness ==
    /\ pc = "ended"
    /\ last.op = "stealth"
    /\ args.target = PublicTarget
    /\ last.answer = <<"Y","E","S">>
    /\ last.outcome = "exit_zero"
    /\ scans_run = 1

\* The scan type chosen in the website menu is valid: 1 or 2, 3 with the full
\* scan confirmed by 'yes' or 'y', 4 with a range that is not empty, or 5
\* with a port made of digits.
ValidWebChoice(w) ==
    LET choice == Strip(w.choice)
    IN \/ choice \in {<<"1">>, <<"2">>}
       \/ choice = <<"3">> /\ SaidYes(w.sub)
       \/ choice = <<"4">> /\ w.sub \notin {CtrlC, Eof} /\ Strip(w.sub) # <<>>
       \/ choice = <<"5">> /\ w.sub \notin {CtrlC, Eof}
                           /\ Strip(w.sub) # <<>>
                           /\ \A i \in 1..Len(Strip(w.sub)) : IsDigit(Strip(w.sub)[i])

\* C23: the website scan invokes the tool only after the permission prompt was
\* answered 'yes' or 'y' and a valid scan type was chosen; a refused
\* permission, an invalid menu choice, an unconfirmed full scan, an empty
\* custom range and a non-digit single port each end the operation with
\* their message and no invocation.
C23_WebsiteScanOnlyWhenConfirmed ==
    (pc = "ended" /\ last.op = "website") =>
        LET w == last.web
            choice == Strip(w.choice)
            answered == w.site # CtrlC /\ w.confirm \notin {CtrlC, Eof}
            chosen == answered /\ SaidYes(w.confirm) /\ w.choice # Eof
            entered == chosen /\ w.sub \notin {CtrlC, Eof}
        IN /\ (last.outcome # "none" \/ scans_run > 0 \/ Printed("running"))
              => (answered /\ SaidYes(w.confirm) /\ w.choice # Eof /\ ValidWebChoice(w))
           /\ (answered /\ ~SaidYes(w.confirm))
              => (last.outcome = "none" /\ scans_run = 0 /\ Printed("cancelled"))
           /\ (chosen /\ choice \notin {<<"1">>, <<"2">>, <<"3">>, <<"4">>, <<"5">>})
              => (last.outcome = "none" /\ scans_run = 0 /\ Printed("invalid_choice"))
           /\ (entered /\ choice = <<"3">> /\ ~SaidYes(w.sub))
              => (last.outcome = "none" /\ scans_run = 0 /\ Printed("full_scan_cancelled"))
           /\ (entered /\ choice = <<"4">> /\ Strip(w.sub) = <<>>)
              => (last.outcome = "none" /\ scans_run = 0 /\ Printed("invalid_range"))
           /\ (entered /\ choice = <<"5">> /\ ~ValidWebChoice(w))
              => (last.outcome = "none" /\ scans_run = 0 /\ Printed("invalid_port"))

\* C23 witness: permission 'Y', choice 5 and port '80': the tool ran once.
C23_Witness ==
    /\ pc = "ended"
    /\ last.op = "website"
    /\ last.web.confirm = <<"Y">>
    /\ last.web.choice = <<"5">>
    /\ last.web.sub = <<"8","0">>
    /\ last.outcome = "exit_zero"
    /\ scans_run = 1

(***************************************************************************)
(* Claims about the interactive loop's handling of incomplete commands     *)
(* and of its end (Spec).                                                  *)
(***************************************************************************)
\* The scan commands that require a target.
NeedTarget == {W_basic, W_ports, W_stealth, W_vuln, W_discover}

\* The step reads a scan command that lacks its target.
ReadsBareScan == pc = "prompt" /\ Len(last'.command) = 1 /\ Lower(last'.command[1]) \in NeedTarget

\* The step reads an empty line.
ReadsEmptyLine == pc = "prompt" /\ pc' # "ended" /\ last'.command = <<>> /\ last'.exc = "none"

\* C24: in the interactive loop a scan command without its target (basic,
\* ports, stealth, vuln, discover) prints the usage message, invokes nothing
\* and returns to the prompt; an empty line performs no operation and
\* returns to the prompt.
C24_BareScanPrintsUsage ==
    [][ /\ ReadsBareScan => /\ printed' = <<"usage">>
                            /\ last'.outcome = "none"
                            /\ scans_run' = scans_run
                            /\ pc' = "prompt"
        /\ ReadsEmptyLine => /\ printed' = <<>>
                             /\ last'.op = "empty"
                             /\ scans_run' = scans_run
                             /\ current_color' = current_color
                             /\ pc' = "prompt" ]_vars

\* C24 restricted to the commands that the loop of every program knows.
C24_KnownBareScan ==
    [][ /\ (ReadsBareScan /\ (prog = "solara" \/ Lower(last'.command[1]) \in {W_basic, W_ports}))
           => /\ printed' = <<"usage">>
              /\ last'.outcome = "none"
              /\ scans_run' = scans_run
              /\ pc' = "prompt"
        /\ ReadsEmptyLine => /\ printed' = <<>>
                             /\ last'.op = "empty"
                             /\ scans_run' = scans_run
                             /\ current_color' = current_color
                             /\ pc' = "prompt" ]_vars

\* The last line read was the exit command, in any letter case.
ExitRead == last.command # <<>> /\ Lower(last.command[1]) = W_exit

\* C25: once the exit command (in any letter case) is read or a keyboard
\* interrupt is received, the interactive loop has terminated: no further
\* command is read and no further invocation happens in the session.
C25_LoopEndsOnExitOrInterrupt ==
    (InLoop /\ (ExitRead \/ last.exc = "interrupt"))
        => /\ pc = "ended"
           /\ ~ENABLED ReplCommand
           /\ ~ENABLED Next

\* C25 witness: after a scan had run, 'Exit' was read and the session ended.
C25_Witness ==
    /\ InLoop
    /\ last.command = <<<<"E","x","i","t">>>>
    /\ last.op = "exit"
    /\ printed = <<"bye">>
    /\ scans_run = 1
    /\ pc = "ended"

(***************************************************************************)
(* Claims about the port entries of the website scan (SpecPorts).          *)
(***************************************************************************)
\* The lines read so far that hold an open port, in their order.
OpenLinesRead ==
    SelectSeq(SubSeq(lines, 1, idx - 1),
              LAMBDA l : Contains(l, SlashTcp) /\ Contains(l, OpenWord))

\* The service and the version that a line carries.
OwnService(line) == IF Len(SplitWS(line)) >= 3 THEN SplitWS(line)[3] ELSE UnknownLc
OwnVersion(line) == RestJoined(SplitWS(line))

\* Two of the open lines read carry the same port token.
SamePortTwice ==
    \E i, j \in 1..Len(OpenLinesRead) :
        i # j /\ BeforeSlash(SplitWS(OpenLinesRead[i])[1]) = BeforeSlash(SplitWS(OpenLinesRead[j])[1])

\* C26: in the website scan every displayed port entry reports the service
\* and the version parsed from its own input line, also when two or more
\* open lines of the output carry the same port token.
C26_EntryFromOwnLine ==
    pc \in {"web_loop", "web_parsed"} =>
        /\ Len(CurrentPortRecords) = Len(OpenLinesRead)
        /\ \A i \in 1..Len(OpenLinesRead) :
              /\ CurrentPortRecords[i].service = OwnService(OpenLinesRead[i])
              /\ CurrentPortRecords[i].version = OwnVersion(OpenLinesRead[i])

\* C26 for the service alone, in test.py.
C26_OwnServiceInTest ==
    (prog = "test" /\ pc \in {"web_loop", "web_parsed"}) =>
        /\ Len(CurrentPortRecords) = Len(OpenLinesRead)
        /\ \A i \in 1..Len(OpenLinesRead) :
              CurrentPortRecords[i].service = OwnService(OpenLinesRead[i])

\* C26 in solara.py for outputs in which no port token occurs twice.
C26_DistinctPortsInSolara ==
    (prog = "solara" /\ pc \in {"web_loop", "web_parsed"} /\ ~SamePortTwice) =>
        /\ Len(CurrentPortRecords) = Len(OpenLinesRead)
        /\ \A i \in 1..Len(OpenLinesRead) :
              /\ CurrentPortRecords[i].service = OwnService(OpenLinesRead[i])
              /\ CurrentPortRecords[i].version = OwnVersion(OpenLinesRead[i])

\* C26 in solara.py, any output.
C26_InSolara ==
    prog = "solara" => C26_EntryFromOwnLine

====
